---- MODULE Spec2Model ----
(***************************************************************************)
(* Health-pass composition and access control of the Hakkemni backend.     *)
(*                                                                         *)
(* The state is the persistent store (health passes, health records), the  *)
(* wall clock, and the anonymous access requests in flight.  A request     *)
(* handler that awaits the store between a read and a write is modelled    *)
(* as one step per store operation, so that two requests interleave the    *)
(* way two promises on the Node event loop do.                             *)
(***************************************************************************)
EXTENDS Integers, Sequences, FiniteSets, TLC

\* ------------------------------------------------------------------------
\* Program constants
\* ------------------------------------------------------------------------
HEALTH_PASS_EXPIRY_HOURS == 24

\* ------------------------------------------------------------------------
\* Bounds of the model
\* ------------------------------------------------------------------------
MaxTime == 48
\* The number of API calls (of any kind) made in one behaviour.
MaxCalls == 4
\* The number of items per category passed to one call of the recommendation
\* composer when it is checked on its own.
MaxAiItems == 2
\* The number of calls made to the allergy and medication services in one
\* behaviour when they are checked on their own.
MaxRecordOps == 3
\* The number of HTTP requests received in one behaviour when the routing is
\* checked on its own.
MaxHttpRequests == 2
\* The number of calls made to the lifestyle service in one behaviour when it
\* is checked on its own.
MaxLifestyleOps == 4
\* The number of identity verifications started in one behaviour when the
\* auth service is checked on its own.
MaxVerifications == 4

\* The clock advances in steps of one expiry period, so that a pass is seen
\* inside its window, exactly at expiresAt, and past it.
TickHours == HEALTH_PASS_EXPIRY_HOURS

Users == {"u1", "u2"}
PassOwners == {"u1"}
PassIdSpace == {"p1"}
Categories == {"medicalCondition", "allergy"}
Requests == {"a1", "a2"}

\* A code that was never issued to any pass.
UnknownCode == MaxCalls + 1
\* lastAccessedAt of a pass that was never accessed (the field is optional).
NoDate == 0 - 1

VARIABLES now, passes, records, reqs, codesIssued, calls, expiredCodes, scans, lastOp

\* One call of the recommendation composer taken on its own: its arguments,
\* the collaborator's answer and what the call returned.
VARIABLE ai

\* The allergy and medication collections with their identifying keys, the
\* number of calls made to the two services and the outcome of the last one.
VARIABLE rs

\* The HTTP layer taken on its own: the number of requests received and the
\* last one with what became of it.
VARIABLE http

\* The lifestyles collection, the number of calls made to the lifestyle
\* service and the outcome of the last one.
VARIABLE ls

\* The users collection, the identity verifications in flight and the number
\* of verifications started.
VARIABLE us

\* The toggleItem requests followed step by step: what each was asked and the
\* list it read.
VARIABLE tg

\* The create requests of the allergy and medication services followed step
\* by step: what each was asked and how it ended.
VARIABLE cr

\* The by-ID requests of the health pass and allergy controllers: who sent
\* the last one, whose resource it named and what came of it.
VARIABLE ctl

vars == <<now, passes, records, reqs, codesIssued, calls, expiredCodes, scans, lastOp, ai, rs,
          http, ls, us, tg, cr, ctl>>

\* ------------------------------------------------------------------------
\* Helpers
\* ------------------------------------------------------------------------
Range(s) == {s[i] : i \in 1..Len(s)}

RECURSIVE DescIds(_)
DescIds(n) == IF n = 0 THEN <<>> ELSE <<n>> \o DescIds(n - 1)

RECURSIVE AscIds(_)
AscIds(n) == IF n = 0 THEN <<>> ELSE AscIds(n - 1) \o <<n>>

PassIds == DOMAIN passes
RecordIds == DOMAIN records

EmptyLists == [c \in Categories |-> <<>>]

\* Array.prototype.includes
Includes(arr, x) == \E i \in 1..Len(arr) : arr[i] = x

\* ------------------------------------------------------------------------
\* Errors and the HTTP responses they become
\* ------------------------------------------------------------------------
NotFoundError(message) == [statusCode |-> 404, message |-> message]

\* A response that carries no profile summary.
NoSummary == [c \in Categories |-> [status |-> "", items |-> <<>>]]

errorHandler(err) ==
    [status |-> err.statusCode, success |-> FALSE, error |-> err.message,
     items |-> EmptyLists, aiRecommendation |-> EmptyLists, aiProfileSummary |-> NoSummary]

\* The preview: per category the items shown and, item by item, the
\* aiRecommendation each carries, and the stored profile summary.
PreviewResponse(items, aiRecommendation, aiProfileSummary) ==
    [status |-> 200, success |-> TRUE, error |-> "", items |-> items,
     aiRecommendation |-> aiRecommendation, aiProfileSummary |-> aiProfileSummary]

NoResponse ==
    [status |-> 0, success |-> FALSE, error |-> "", items |-> EmptyLists,
     aiRecommendation |-> EmptyLists, aiProfileSummary |-> NoSummary]

\* The value of a property that is not there.
Undefined == "undefined"

\* ------------------------------------------------------------------------
\* Record stores
\* ------------------------------------------------------------------------
\* <Record>Service.findByUserId(userId): active records, newest first.
findByUserId(userId, category) ==
    SelectSeq(DescIds(Cardinality(RecordIds)),
              LAMBDA id : /\ records[id].userId = userId
                          /\ records[id].category = category
                          /\ records[id].isActive)

\* <Record>Service.getSummaries(userId, specificIds)
getSummaries(userId, category, specificIds) ==
    SelectSeq(AscIds(Cardinality(RecordIds)),
              LAMBDA id : /\ records[id].userId = userId
                          /\ records[id].category = category
                          /\ records[id].isActive
                          /\ (Len(specificIds) > 0 => Includes(specificIds, id)))

\* ------------------------------------------------------------------------
\* Health passes
\* ------------------------------------------------------------------------
\* The collaborator's answer to one generateContent call: the call throws,
\* returns no text, returns text that JSON.parse rejects, or returns a JSON
\* object with one array of entries (id, isRelevant, recommendation) per category.
AiFailures == {"throws", "empty", "malformed"}

FailedResponse(outcome, categories) ==
    [outcome |-> outcome, entries |-> [c \in categories |-> <<>>]]

\* The categories whose items the catch branch marks relevant.
DefaultRelevant(c) == c \in {"medicalCondition", "medication", "allergy"}

\* The recommendation texts of the catch branch.
DefaultText(c) ==
    IF c \in {"medicalCondition", "medication"} THEN "Recommended to share with your doctor."
    ELSE IF c = "allergy" THEN "Important for medication safety."
    ELSE "Share if relevant to your appointment."

\* Array.prototype.find(r => r.id === id): the index of the first match, 0 if none.
FindIndex(entries, id) ==
    IF \E k \in 1..Len(entries) : entries[k].id = id
    THEN CHOOSE k \in 1..Len(entries) :
            /\ entries[k].id = id
            /\ \A j \in 1..(k - 1) : entries[j].id # id
    ELSE 0

createDefaultRecommendation(id) ==
    [id |-> id, isRelevant |-> TRUE, recommendation |-> "Recommended to share with your doctor."]

\* userData.<category>.map(item => found ? {...} : createDefaultRecommendation(item.id))
MappedRecommendations(items, entries) ==
    [i \in 1..Len(items) |->
        LET k == FindIndex(entries, items[i])
        IN  IF k # 0
            THEN [id |-> items[i],
                  isRelevant |-> entries[k].isRelevant,
                  recommendation |-> entries[k].recommendation]
            ELSE createDefaultRecommendation(items[i])]

\* The catch branch: the default judgment of the category for every item.
CaughtRecommendations(c, items) ==
    [i \in 1..Len(items) |->
        [id |-> items[i], isRelevant |-> DefaultRelevant(c), recommendation |-> DefaultText(c)]]

\* The try block of generateHealthPassRecommendations: it throws when
\* generateContent throws, when the answer has no text (AIProcessingError) and
\* when JSON.parse rejects the text; otherwise it returns the mapped judgments.
TriedRecommendations(userData, response) ==
    IF response.outcome = "parsed"
    THEN [threw |-> FALSE,
          value |-> [c \in DOMAIN userData |->
                        MappedRecommendations(userData[c], response.entries[c])]]
    ELSE [threw |-> TRUE, value |-> [c \in DOMAIN userData |-> <<>>]]

\* Mutant: the catch block passes the error on to the caller.
generateHealthPassRecommendationsRethrow(userData, response) ==
    LET tried == TriedRecommendations(userData, response)
    IN  [raised |-> tried.threw, value |-> tried.value]

\* aiService.generateHealthPassRecommendations: `raised` tells whether the call
\* rejected, `value` is what it resolved to.
generateHealthPassRecommendations(userData, response) ==
    LET tried == TriedRecommendations(userData, response)
    IN  IF tried.threw
        THEN [raised |-> FALSE,
              value |-> [c \in DOMAIN userData |-> CaughtRecommendations(c, userData[c])]]
        ELSE [raised |-> FALSE, value |-> tried.value]

\* The entries of a parsed answer that lists the IDs of `listed`, in ascending
\* order, and marks those of `relevant` relevant.
EntriesOf(listed, relevant, maxId) ==
    LET kept == SelectSeq(AscIds(maxId), LAMBDA id : id \in listed)
    IN  [i \in 1..Len(kept) |->
            [id |-> kept[i], isRelevant |-> kept[i] \in relevant,
             recommendation |-> "Relevant to this appointment."]]

\* The answers the collaborator may give to Create: a failure, or a parsed
\* answer whose every category array holds the same entries; the entries may
\* omit items passed in and may carry IDs that were not passed in.
AiResponses ==
    {FailedResponse(o, Categories) : o \in AiFailures}
    \cup
    UNION {{[outcome |-> "parsed",
             entries |-> [c \in Categories |->
                             EntriesOf(listed, relevant, Cardinality(RecordIds))]] :
               relevant \in SUBSET listed} : listed \in SUBSET RecordIds}

\* Mutant: the IDs of all recommendations are kept.
RelevantIdsUnfiltered(recs) == [i \in 1..Len(recs) |-> recs[i].id]

\* recommendations.filter(r => r.isRelevant).map(r => r.id)
RelevantIds(recs) ==
    LET kept == SelectSeq(recs, LAMBDA r : r.isRelevant)
    IN  [i \in 1..Len(kept) |-> kept[i].id]

\* The dataToggles built by create.
CreateDataToggles(aiSuggestions) ==
    [name |-> TRUE, gender |-> TRUE, dateOfBirth |-> TRUE,
     enabled |-> [c \in Categories |-> TRUE],
     specific |-> [c \in Categories |-> RelevantIds(aiSuggestions[c])]]

NewExpiresAt == now + HEALTH_PASS_EXPIRY_HOURS

FreshCode == codesIssued + 1

\* The last create or edit of a pass made through the API, kept for the
\* properties: a bit that every such call flips, what the call was asked to do,
\* whether a fetch of create failed and the error it ended with, the membership
\* of the list it worked on before it ran, and, when it re-enables the item
\* that the edit before it disabled, the membership before that edit.
NoOp ==
    [op |-> "none", flip |-> FALSE, requiredOff |-> FALSE, noop |-> FALSE, isEnabled |-> FALSE,
     id |-> "", itemType |-> "", itemId |-> 0, before |-> {},
     roundTrip |-> FALSE, origin |-> {}, fetchFailed |-> FALSE, error |-> ""]

\* The two texts that the prompt of generateProfileSummary has for a category
\* of which nothing is shared.
NoneOnFile == "None on file"
NoneShared == "None shared for this appointment (on file, not relevant to this specialty)"

\* formatCategoryStatus of generateProfileSummary: the section of the prompt
\* for one category.  totalCount is optional: {} when it is undefined, {n} for
\* the number n.
formatCategoryStatus(sharedItems, totalCount) ==
    IF Len(sharedItems) > 0 THEN [status |-> "shared", items |-> sharedItems]
    ELSE IF \E n \in totalCount : n > 0 THEN [status |-> NoneShared, items |-> <<>>]
    ELSE [status |-> NoneOnFile, items |-> <<>>]

\* AiService.generateProfileSummary.  The text is written by the generator (or,
\* when it fails, by generateDefaultProfileSummary) from toggledData alone; it
\* is kept as the sections of the prompt it was generated from.
generateProfileSummary(toggledData, totalCounts) ==
    [c \in DOMAIN toggledData |-> formatCategoryStatus(toggledData[c], totalCounts[c])]

\* create calls generateProfileSummary with three arguments: totalCounts is
\* undefined.
NoTotalCounts == [c \in Categories |-> {}]

\* The outcome of one record-service fetch started by create.
Fulfilled(value) == [ok |-> TRUE, value |-> value]

FetchRejected == [ok |-> FALSE, value |-> <<>>]

\* Mutant: a rejected fetch counts as an empty result (Promise.allSettled).
PromiseAllSettled(fetches) ==
    [ok |-> TRUE, value |-> [c \in DOMAIN fetches |-> fetches[c].value]]

\* Promise.all: rejected as soon as one of the fetches is rejected.
PromiseAll(fetches) ==
    [ok |-> \A c \in DOMAIN fetches : fetches[c].ok,
     value |-> [c \in DOMAIN fetches |-> fetches[c].value]]

\* HealthPassService.create; `failing` are the categories whose fetch rejects.
Create(userId, response, failing) ==
    /\ calls < MaxCalls
    /\ calls' = calls + 1
    /\ \E id \in PassIdSpace \ PassIds :
         LET gathered == PromiseAll([c \in Categories |->
                              IF c \in failing THEN FetchRejected
                              ELSE Fulfilled(findByUserId(userId, c))])
             fetched == gathered.value
             answered == generateHealthPassRecommendations(fetched, response)
             aiSuggestions == answered.value
             dataToggles == CreateDataToggles(aiSuggestions)
             toggled == [c \in Categories |->
                            SelectSeq(fetched[c],
                                      LAMBDA item : Includes(dataToggles.specific[c], item))]
             aiProfileSummary == generateProfileSummary(toggled, NoTotalCounts)
             healthPass == [userId |-> userId,
                            accessCode |-> FreshCode,
                            status |-> "generated",
                            dataToggles |-> dataToggles,
                            aiProfileSummary |-> aiProfileSummary,
                            aiItemRecommendations |-> aiSuggestions,
                            expiresAt |-> NewExpiresAt,
                            lastAccessedAt |-> NoDate,
                            accessCount |-> 0]
             created == [NoOp EXCEPT !.op = "create", !.flip = ~lastOp.flip, !.id = id,
                                     !.fetchFailed = failing # {}]
         IN  IF ~gathered.ok
             THEN /\ lastOp' = [created EXCEPT !.error = "fetch rejected"]
                  /\ UNCHANGED <<passes, scans, codesIssued>>
             ELSE IF answered.raised
             THEN /\ lastOp' = [created EXCEPT !.error = "recommendations rejected"]
                  /\ UNCHANGED <<passes, scans, codesIssued>>
             ELSE /\ passes' = passes @@ (id :> healthPass)
                  /\ scans' = scans @@ (id :> 0)
                  /\ codesIssued' = codesIssued + 1
                  /\ lastOp' = created
    /\ UNCHANGED <<ctl, ai, rs, http, ls, us, tg, cr, now, records, reqs, expiredCodes>>

\* Mutant: the payload is stored as sent.
UpdateDataAsSent(dto) == dto

\* The update document of HealthPassService.update: required toggles forced on.
UpdateData(dto) ==
    IF dto.hasDataToggles
    THEN [dto EXCEPT !.dataToggles.name = TRUE,
                     !.dataToggles.gender = TRUE,
                     !.dataToggles.dateOfBirth = TRUE]
    ELSE dto

\* HealthPassService.update: $set of the update document.
Update(id, dto) ==
    /\ calls < MaxCalls
    /\ calls' = calls + 1
    /\ id \in PassIds
    /\ LET updateData == UpdateData(dto)
       IN  passes' = [passes EXCEPT ![id].dataToggles =
                         IF updateData.hasDataToggles THEN updateData.dataToggles ELSE @]
    /\ lastOp' = [NoOp EXCEPT
                  !.op = "update", !.flip = ~lastOp.flip, !.id = id,
                  !.requiredOff = dto.hasDataToggles /\
                       ~(dto.dataToggles.name /\ dto.dataToggles.gender /\ dto.dataToggles.dateOfBirth)]
    /\ UNCHANGED <<ai, rs, http, ls, us, tg, cr, now, records, reqs, codesIssued, expiredCodes, scans>>

\* The payloads of update that the model draws from: one without dataToggles,
\* and dataToggles that send the three required toggles all true, name alone
\* false, or all false, with every choice of the category toggles.
UpdateDtos ==
    {[hasDataToggles |-> FALSE,
      dataToggles |-> [name |-> TRUE, gender |-> TRUE, dateOfBirth |-> TRUE,
                       enabled |-> [c \in Categories |-> TRUE], specific |-> EmptyLists]]}
    \cup
    {[hasDataToggles |-> TRUE,
      dataToggles |-> [name |-> required[1], gender |-> required[2], dateOfBirth |-> required[3],
                       enabled |-> e, specific |-> EmptyLists]] :
        required \in {<<TRUE, TRUE, TRUE>>, <<FALSE, TRUE, TRUE>>, <<FALSE, FALSE, FALSE>>},
        e \in [Categories -> BOOLEAN]}

\* Mutant: regeneration also resets the access counter.
RegeneratedDocResetCount(doc, newAccessCode, newExpiresAt) ==
    [doc EXCEPT !.accessCode = newAccessCode,
                !.expiresAt = newExpiresAt,
                !.status = "generated",
                !.accessCount = 0]

\* Mutant: the access code is left as it is.
RegeneratedDocKeepCode(doc, newAccessCode, newExpiresAt) ==
    [doc EXCEPT !.expiresAt = newExpiresAt,
                !.status = "generated"]

\* The document after regenerateQrCode's $set.
RegeneratedDoc(doc, newAccessCode, newExpiresAt) ==
    [doc EXCEPT !.accessCode = newAccessCode,
                !.expiresAt = newExpiresAt,
                !.status = "generated"]

\* HealthPassService.regenerateQrCode
RegenerateQrCode(id) ==
    /\ calls < MaxCalls
    /\ calls' = calls + 1
    /\ IF id \in PassIds
       THEN /\ passes' = [passes EXCEPT ![id] = RegeneratedDoc(@, FreshCode, NewExpiresAt)]
            /\ codesIssued' = codesIssued + 1
            /\ lastOp' = [NoOp EXCEPT !.op = "regenerateQrCode", !.flip = ~lastOp.flip,
                                      !.id = id]
       ELSE /\ lastOp' = [NoOp EXCEPT !.op = "regenerateQrCode", !.flip = ~lastOp.flip,
                                      !.id = id,
                                      !.error = NotFoundError("Health pass not found").message]
            /\ UNCHANGED <<passes, codesIssued>>
    /\ UNCHANGED <<ai, rs, http, ls, us, tg, cr, now, records, reqs, expiredCodes, scans>>

\* Mutant: the membership test of the enabling branch is inverted.
ToggledArrayInvertedTest(currentArray, itemId, isEnabled) ==
    IF isEnabled
    THEN IF Includes(currentArray, itemId)
         THEN Append(currentArray, itemId)
         ELSE currentArray
    ELSE SelectSeq(currentArray, LAMBDA x : x # itemId)

\* Mutant: enabling appends without looking for the ID first.
ToggledArrayAlwaysAppend(currentArray, itemId, isEnabled) ==
    IF isEnabled
    THEN Append(currentArray, itemId)
    ELSE SelectSeq(currentArray, LAMBDA x : x # itemId)

\* The updatedArray of toggleItem.
ToggledArray(currentArray, itemId, isEnabled) ==
    IF isEnabled
    THEN IF ~Includes(currentArray, itemId)
         THEN Append(currentArray, itemId)
         ELSE currentArray
    ELSE SelectSeq(currentArray, LAMBDA x : x # itemId)

\* Mutant: the whole dataToggles object is rebuilt around the one list.
ToggleUpdateRebuild(doc, itemType, updatedArray) ==
    [doc EXCEPT !.dataToggles.specific = [EmptyLists EXCEPT ![itemType] = updatedArray]]

\* findByIdAndUpdate(id, { $set: { [`dataToggles.${field}`]: updatedArray } })
ToggleUpdate(doc, itemType, updatedArray) ==
    [doc EXCEPT !.dataToggles.specific[itemType] = updatedArray]

\* HealthPassService.toggleItem
ToggleItem(id, itemType, itemId, isEnabled) ==
    /\ calls < MaxCalls
    /\ calls' = calls + 1
    /\ id \in PassIds
    /\ LET currentArray == passes[id].dataToggles.specific[itemType]
           reEnables == /\ isEnabled
                        /\ lastOp.op = "toggleItem"
                        /\ ~lastOp.isEnabled
                        /\ lastOp.id = id
                        /\ lastOp.itemType = itemType
                        /\ lastOp.itemId = itemId
       IN  /\ passes' = [passes EXCEPT ![id] =
                             ToggleUpdate(@, itemType, ToggledArray(currentArray, itemId, isEnabled))]
           /\ lastOp' = [NoOp EXCEPT
                         !.op = "toggleItem", !.flip = ~lastOp.flip,
                         !.noop = (Includes(currentArray, itemId) <=> isEnabled),
                         !.isEnabled = isEnabled,
                         !.id = id, !.itemType = itemType, !.itemId = itemId,
                         !.before = Range(currentArray),
                         !.roundTrip = reEnables,
                         !.origin = IF reEnables THEN lastOp.before ELSE {}]
    /\ UNCHANGED <<ctl, ai, rs, http, ls, us, tg, cr, now, records, reqs, codesIssued, expiredCodes, scans>>

\* ------------------------------------------------------------------------
\* Anonymous access by code: one step per store operation of findByAccessCode
\* ------------------------------------------------------------------------
NoToggles ==
    [name |-> TRUE, gender |-> TRUE, dateOfBirth |-> TRUE,
     enabled |-> [c \in Categories |-> TRUE], specific |-> EmptyLists]

\* The fields of the document returned by findOne that the handler reads later.
NoHealthPass ==
    [id |-> "", userId |-> "", expiresAt |-> 0, dataToggles |-> NoToggles,
     aiProfileSummary |-> NoSummary, aiItemRecommendations |-> EmptyLists]

Snapshot(id) ==
    [id |-> id, userId |-> passes[id].userId, expiresAt |-> passes[id].expiresAt,
     dataToggles |-> passes[id].dataToggles,
     aiProfileSummary |-> passes[id].aiProfileSummary,
     aiItemRecommendations |-> passes[id].aiItemRecommendations]

IdleReq ==
    [pc |-> "idle", code |-> UnknownCode, healthPass |-> NoHealthPass,
     checkedAt |-> 0, isExpired |-> FALSE, existed |-> FALSE, afterExpiry |-> FALSE,
     response |-> NoResponse, variant |-> ""]

\* HealthPassModel.findOne({ accessCode }) and the not-found guard.  Requests
\* are interchangeable: the second one is the one that arrives while the first
\* is still being served.
AccessLookup(r, accessCode) ==
    /\ calls < MaxCalls
    /\ calls' = calls + 1
    /\ reqs[r].pc = "idle"
    /\ r = "a2" => reqs["a1"].pc # "idle"
    /\ LET matches == {id \in PassIds : passes[id].accessCode = accessCode}
           started == [IdleReq EXCEPT !.code = accessCode,
                                      !.existed = matches # {},
                                      !.afterExpiry = accessCode \in expiredCodes]
       IN  IF matches = {}
           THEN reqs' = [reqs EXCEPT ![r] =
                    [started EXCEPT !.pc = "done",
                                    !.response = errorHandler(NotFoundError("Health pass not found"))]]
           ELSE \E id \in matches :
                  reqs' = [reqs EXCEPT ![r] =
                    [started EXCEPT !.pc = "found", !.healthPass = Snapshot(id)]]
    /\ UNCHANGED <<ctl, ai, rs, http, ls, us, tg, cr, now, passes, records, codesIssued, expiredCodes, scans, lastOp>>

\* Mutant: a grace period of one expiry window before a pass counts as expired.
IsExpiredWithGrace(date, expiresAt) == date > expiresAt + HEALTH_PASS_EXPIRY_HOURS

\* Mutant: a pass counts as expired at expiresAt itself.
IsExpiredAtDeadline(date, expiresAt) == date >= expiresAt

\* new Date() > healthPass.expiresAt
IsExpired(date, expiresAt) == date > expiresAt

\* The expiry check on the document read, and the update it issues.
AccessCheck(r) ==
    /\ reqs[r].pc = "found"
    /\ reqs' = [reqs EXCEPT ![r].pc = "updating",
                            ![r].checkedAt = now,
                            ![r].isExpired = IsExpired(now, reqs[r].healthPass.expiresAt)]
    /\ UNCHANGED <<ctl, ai, rs, http, ls, us, tg, cr, now, passes, records, codesIssued, expiredCodes, scans, lastOp, calls>>

\* findByIdAndUpdate(_id, { $set: { status: EXPIRED } })
ExpiredUpdate(doc) == [doc EXCEPT !.status = "expired"]

\* Mutant: the counter is written with $set instead of $inc.
AccessTrackingUpdateSet(doc, date) ==
    [doc EXCEPT !.lastAccessedAt = date, !.status = "shared", !.accessCount = 1]

\* findByIdAndUpdate(_id, { $set: { lastAccessedAt, status: SHARED }, $inc: { accessCount: 1 } })
AccessTrackingUpdate(doc, date) ==
    [doc EXCEPT !.lastAccessedAt = date, !.status = "shared", !.accessCount = @ + 1]

\* The store applies the expired update; the handler throws NotFoundError.
AccessMarkExpired(r) ==
    /\ reqs[r].pc = "updating"
    /\ reqs[r].isExpired
    /\ passes' = [passes EXCEPT ![reqs[r].healthPass.id] = ExpiredUpdate(@)]
    /\ reqs' = [reqs EXCEPT ![r].pc = "done",
                            ![r].response = errorHandler(NotFoundError("Health pass has expired"))]
    /\ expiredCodes' = expiredCodes \cup {reqs[r].code}
    /\ UNCHANGED <<ctl, ai, rs, http, ls, us, tg, cr, now, records, codesIssued, scans, lastOp, calls>>

\* The store applies the access-tracking update.
AccessTrack(r) ==
    /\ reqs[r].pc = "updating"
    /\ ~reqs[r].isExpired
    /\ passes' = [passes EXCEPT ![reqs[r].healthPass.id] =
                      AccessTrackingUpdate(@, reqs[r].checkedAt)]
    /\ scans' = [scans EXCEPT ![reqs[r].healthPass.id] = @ + 1]
    /\ reqs' = [reqs EXCEPT ![r].pc = "rendering"]
    /\ UNCHANGED <<ctl, ai, rs, http, ls, us, tg, cr, now, records, codesIssued, expiredCodes, lastOp, calls>>

\* HealthPassService.generatePreview: the owner's active records filtered to
\* the specific-ID lists of the document read.
generatePreview(healthPass) ==
    [c \in Categories |->
        IF healthPass.dataToggles.enabled[c]
        THEN SelectSeq(findByUserId(healthPass.userId, c),
                       LAMBDA id : Includes(healthPass.dataToggles.specific[c], id))
        ELSE <<>>]

\* HealthPassService.generatePreview of the variant that asks each record
\* service for its summaries.
generatePreviewSummaries(healthPass) ==
    [c \in Categories |->
        IF healthPass.dataToggles.enabled[c]
        THEN getSummaries(healthPass.userId, c, healthPass.dataToggles.specific[c])
        ELSE <<>>]

\* storedRecommendations?.<category>Recommendations?.find(r => r.id === id)?.recommendation
StoredRecommendation(storedRecommendations, id) ==
    LET k == FindIndex(storedRecommendations, id)
    IN  IF k # 0 THEN storedRecommendations[k].recommendation ELSE Undefined

\* The aiRecommendation of each item of the preview, in the order of the items.
previewRecommendations(healthPass) ==
    LET preview == generatePreview(healthPass)
    IN  [c \in Categories |->
            [i \in 1..Len(preview[c]) |->
                StoredRecommendation(healthPass.aiItemRecommendations[c], preview[c][i])]]

\* The summaries of the record services carry no aiRecommendation.
summaryRecommendations(healthPass) ==
    LET preview == generatePreviewSummaries(healthPass)
    IN  [c \in Categories |-> [i \in 1..Len(preview[c]) |-> Undefined]]

AccessRender(r) ==
    /\ reqs[r].pc = "rendering"
    /\ reqs' = [reqs EXCEPT ![r].pc = "done",
                            ![r].response = PreviewResponse(generatePreview(reqs[r].healthPass),
                                                previewRecommendations(reqs[r].healthPass),
                                                reqs[r].healthPass.aiProfileSummary),
                            ![r].variant = "filtered"]
    /\ UNCHANGED <<ctl, ai, rs, http, ls, us, tg, cr, now, passes, records, codesIssued, expiredCodes, scans, lastOp, calls>>

AccessRenderSummaries(r) ==
    /\ reqs[r].pc = "rendering"
    /\ reqs' = [reqs EXCEPT ![r].pc = "done",
                            ![r].response =
                                PreviewResponse(generatePreviewSummaries(reqs[r].healthPass),
                                                summaryRecommendations(reqs[r].healthPass),
                                                NoSummary),
                            ![r].variant = "summaries"]
    /\ UNCHANGED <<ctl, ai, rs, http, ls, us, tg, cr, now, passes, records, codesIssued, expiredCodes, scans, lastOp, calls>>

\* The response has been sent; the request slot is free again.
AccessFinish(r) ==
    /\ reqs[r].pc = "done"
    /\ reqs' = [reqs EXCEPT ![r] = IdleReq]
    /\ UNCHANGED <<ctl, ai, rs, http, ls, us, tg, cr, now, passes, records, codesIssued, expiredCodes, scans, lastOp, calls>>

\* ------------------------------------------------------------------------
\* Record stores: create and soft delete
\* ------------------------------------------------------------------------
CreateRecord(userId, category) ==
    /\ calls < MaxCalls
    /\ calls' = calls + 1
    /\ records' = Append(records, [userId |-> userId, category |-> category, isActive |-> TRUE])
    /\ UNCHANGED <<ctl, ai, rs, http, ls, us, tg, cr, now, passes, reqs, codesIssued, expiredCodes, scans, lastOp>>

\* <Record>Service.delete: $set isActive false
DeleteRecord(id) ==
    /\ calls < MaxCalls
    /\ calls' = calls + 1
    /\ id \in RecordIds
    /\ records[id].isActive
    /\ records' = [records EXCEPT ![id].isActive = FALSE]
    /\ UNCHANGED <<ctl, ai, rs, http, ls, us, tg, cr, now, passes, reqs, codesIssued, expiredCodes, scans, lastOp>>

\* ------------------------------------------------------------------------
\* The clock
\* ------------------------------------------------------------------------
Tick ==
    /\ now + TickHours <= MaxTime
    /\ now' = now + TickHours
    /\ UNCHANGED <<ctl, ai, rs, http, ls, us, tg, cr, passes, records, reqs, codesIssued, expiredCodes, scans, lastOp, calls>>

\* ------------------------------------------------------------------------
\* One call of generateHealthPassRecommendations
\* ------------------------------------------------------------------------
AiCategories == {"medicalCondition", "medication", "allergy", "lifestyle", "document"}

\* The IDs of the items passed in, and the IDs an answer may carry (one of
\* them belongs to no item).
AiItemIds == 1..MaxAiItems
AiAnswerIds == 1..(MaxAiItems + 1)

NoAiResult == [raised |-> FALSE, value |-> [c \in AiCategories |-> <<>>]]

NoAiCall ==
    [pc |-> "none", userData |-> [c \in AiCategories |-> <<>>],
     response |-> FailedResponse("throws", AiCategories), result |-> NoAiResult]

\* The items of a category: none, or the first few of the IDs.
AiItemLists == {AscIds(k) : k \in {0} \cup AiItemIds}

AiAnswers ==
    {FailedResponse(o, AiCategories) : o \in AiFailures}
    \cup
    UNION {{[outcome |-> "parsed",
             entries |-> [c \in AiCategories |-> EntriesOf(listed, relevant, MaxAiItems + 1)]] :
               relevant \in SUBSET listed} : listed \in SUBSET AiAnswerIds}

AiCalls ==
    {[NoAiCall EXCEPT !.pc = "called", !.userData = userData, !.response = response] :
        userData \in [AiCategories -> AiItemLists], response \in AiAnswers}

\* The call runs to its return.
Recommend ==
    /\ ai.pc = "called"
    /\ ai' = [ai EXCEPT !.pc = "returned",
                         !.result = generateHealthPassRecommendations(ai.userData, ai.response)]
    /\ UNCHANGED <<ctl, rs, http, ls, us, tg, cr, now, passes, records, reqs, codesIssued, calls, expiredCodes, scans, lastOp>>

\* ------------------------------------------------------------------------
\* Allergy and medication services: duplicate detection by regular expression
\* ------------------------------------------------------------------------
\* Strings are sequences of characters.  The names the model draws from: a
\* plain name, the same name in upper case, the same name with a trailing
\* blank, a name with a parenthesised part, and a different name.
Names ==
    {<<"n">>, <<"N">>, <<"n", " ">>, <<"n", "(", "t", ")">>, <<"m">>}

Dosages == {<<"1">>, <<"2">>}

\* A field the payload does not carry.
Absent == <<>>

Kinds == {"allergy", "medication"}

\* The identifying fields a create payload may carry: allergen for an allergy,
\* medicationName and dosageAmount for a medication.
CreateKeys(kind) ==
    IF kind = "allergy" THEN {<<n>> : n \in Names}
    ELSE {<<n, d>> : n \in Names, d \in Dosages}

\* The identifying fields an update payload may carry (a medication update
\* may carry one of the two only).
UpdateKeys(kind) ==
    IF kind = "allergy" THEN {<<n>> : n \in Names}
    ELSE {<<n, d>> : n \in Names \cup {Absent}, d \in Dosages \cup {Absent}} \ {<<Absent, Absent>>}

\* String.prototype.toLowerCase, one character.
toLowerCase(ch) == IF ch = "N" THEN "n" ELSE IF ch = "M" THEN "m" ELSE IF ch = "T" THEN "t" ELSE ch

LowerCased(str) == [i \in 1..Len(str) |-> toLowerCase(str[i])]

\* String.prototype.trim
RECURSIVE trim(_)
trim(str) ==
    IF Len(str) = 0 THEN str
    ELSE IF Head(str) = " " THEN trim(Tail(str))
    ELSE IF str[Len(str)] = " " THEN trim(SubSeq(str, 1, Len(str) - 1))
    ELSE str

\* new RegExp(`^${source}$`, 'i').test(str) for a source made of letters,
\* digits, blanks and balanced parentheses: the text is put into the pattern
\* unescaped, so a parenthesis opens or closes a group and matches no
\* character; every other character matches itself in either case.
RegExpTest(source, str) ==
    LowerCased(SelectSeq(source, LAMBDA ch : ch \notin {"(", ")"})) = LowerCased(str)

\* The documents findOne({ userId, <field>: { $regex }, isActive: true, _id: { $ne } }) matches.
findOneDuplicate(kind, userId, key, exceptId) ==
    {id \in DOMAIN rs.docs :
        /\ id # exceptId
        /\ rs.docs[id].kind = kind
        /\ rs.docs[id].userId = userId
        /\ rs.docs[id].isActive
        /\ \A f \in 1..Len(key) : RegExpTest(key[f], rs.docs[id].key[f])}

NoRecordOp == [op |-> "none", kind |-> "", userId |-> "", id |-> 0, key |-> <<>>, outcome |-> ""]

\* AllergyService.create / MedicationService.create
CreateKeyed(kind, userId, dtoKey) ==
    /\ rs.ops < MaxRecordOps
    /\ LET key == [f \in 1..Len(dtoKey) |-> trim(dtoKey[f])]
           op == [NoRecordOp EXCEPT !.op = "create", !.kind = kind, !.userId = userId,
                                    !.key = dtoKey]
       IN  IF findOneDuplicate(kind, userId, key, 0) # {}
           THEN rs' = [rs EXCEPT !.ops = @ + 1,
                                 !.last = [op EXCEPT !.outcome = "ConflictError"]]
           ELSE rs' = [rs EXCEPT !.ops = @ + 1,
                                 !.docs = Append(@, [kind |-> kind, userId |-> userId,
                                                     key |-> key, isActive |-> TRUE]),
                                 !.last = [op EXCEPT !.outcome = "created",
                                                     !.id = Len(rs.docs) + 1]]
    /\ UNCHANGED <<ctl, ai, http, ls, us, tg, cr, now, passes, records, reqs, codesIssued, calls, expiredCodes, scans, lastOp>>

\* AllergyService.update / MedicationService.update when the payload carries
\* identifying fields: the field the payload lacks keeps its stored value.
UpdateKeyed(id, dtoKey) ==
    /\ rs.ops < MaxRecordOps
    /\ id \in DOMAIN rs.docs
    /\ dtoKey \in UpdateKeys(rs.docs[id].kind)
    /\ LET current == rs.docs[id]
           key == [f \in 1..Len(dtoKey) |->
                      IF trim(dtoKey[f]) # Absent THEN trim(dtoKey[f]) ELSE current.key[f]]
           op == [NoRecordOp EXCEPT !.op = "update", !.kind = current.kind,
                                    !.userId = current.userId, !.id = id, !.key = dtoKey]
       IN  IF findOneDuplicate(current.kind, current.userId, key, id) # {}
           THEN rs' = [rs EXCEPT !.ops = @ + 1,
                                 !.last = [op EXCEPT !.outcome = "ConflictError"]]
           ELSE rs' = [rs EXCEPT !.ops = @ + 1,
                                 !.docs[id].key = key,
                                 !.last = [op EXCEPT !.outcome = "updated"]]
    /\ UNCHANGED <<ai, http, ls, us, tg, cr, now, passes, records, reqs, codesIssued, calls, expiredCodes, scans, lastOp>>

\* AllergyService.delete / MedicationService.delete: $set isActive false.
DeleteKeyed(id) ==
    /\ rs.ops < MaxRecordOps
    /\ id \in DOMAIN rs.docs
    /\ rs' = [rs EXCEPT !.ops = @ + 1,
                         !.docs[id].isActive = FALSE,
                         !.last = [NoRecordOp EXCEPT !.op = "delete", !.kind = rs.docs[id].kind,
                                       !.userId = rs.docs[id].userId, !.id = id,
                                       !.key = rs.docs[id].key, !.outcome = "deleted"]]
    /\ UNCHANGED <<ai, http, ls, us, tg, cr, now, passes, records, reqs, codesIssued, calls, expiredCodes, scans, lastOp>>

NoRecords == [docs |-> <<>>, ops |-> 0, last |-> NoRecordOp]

\* ------------------------------------------------------------------------
\* The HTTP layer: routers, authenticate and the token checks
\* ------------------------------------------------------------------------
UnauthorizedError(message) == [statusCode |-> 401, message |-> message]

\* The payloads of the tokens that jwt.verify accepts; it throws for every
\* other token (expired, or signed with another secret).
JwtPayloads ==
    ("access-u1" :> [userId |-> "u1", type |-> "access"]) @@
    ("refresh-u1" :> [userId |-> "u1", type |-> "refresh"]) @@
    ("refresh-u3" :> [userId |-> "u3", type |-> "refresh"])

Tokens == DOMAIN JwtPayloads \cup {"expired"}

\* The outcome of a middleware or of a token check: passed with a value, or
\* an error handed to next().
Passed(value) == [ok |-> TRUE, value |-> value, error |-> UnauthorizedError("")]

Thrown(error) == [ok |-> FALSE, value |-> "", error |-> error]

\* Mutant: the type of the token is not looked at.
verifyTokenAnyType(token) ==
    IF token \in DOMAIN JwtPayloads
    THEN Passed(JwtPayloads[token].userId)
    ELSE Thrown(UnauthorizedError("Invalid or expired access token"))

\* AuthService.verifyToken
verifyToken(token) ==
    IF token \in DOMAIN JwtPayloads /\ JwtPayloads[token].type = "access"
    THEN Passed(JwtPayloads[token].userId)
    ELSE Thrown(UnauthorizedError("Invalid or expired access token"))

\* AuthService.refreshToken: the refresh token of a user that still exists.
refreshToken(token) ==
    IF /\ token \in DOMAIN JwtPayloads
       /\ JwtPayloads[token].type = "refresh"
       /\ JwtPayloads[token].userId \in Users
    THEN Passed(JwtPayloads[token].userId)
    ELSE Thrown(UnauthorizedError("Invalid or expired refresh token"))

\* The Authorization header as its parts between spaces (authHeader.split(' ')),
\* <<>> when the request has none.
AuthorizationHeaders ==
    {<<>>, <<"Bearer">>} \cup {<<scheme, token>> : scheme \in {"Bearer", "Basic"}, token \in Tokens}

\* authenticate (middleware)
authenticate(authHeader) ==
    IF authHeader = <<>>
    THEN Thrown(UnauthorizedError("No authorization header provided"))
    ELSE IF authHeader[1] # "Bearer" \/ Len(authHeader) < 2
    THEN Thrown(UnauthorizedError("Invalid authorization format. Use: Bearer <token>"))
    ELSE verifyToken(authHeader[2])

\* The layers of a router in the order of their registration.
Use(middleware) == [kind |-> "use", method |-> "", path |-> middleware]

Route(method, path) == [kind |-> "route", method |-> method, path |-> path]

authRouter ==
    <<Route("POST", "/verify-id"), Route("POST", "/extract-id"), Route("POST", "/refresh")>>

userRouter ==
    <<Use("authenticate"), Route("GET", "/me"), Route("PATCH", "/me"), Route("GET", "/summary")>>

medicalConditionRouter ==
    <<Use("authenticate"), Route("POST", "/"), Route("GET", "/"), Route("GET", "/:id"),
      Route("PATCH", "/:id"), Route("DELETE", "/:id")>>

medicationRouter ==
    <<Use("authenticate"), Route("POST", "/"), Route("GET", "/"), Route("GET", "/:id"),
      Route("PATCH", "/:id"), Route("DELETE", "/:id")>>

allergyRouter ==
    <<Use("authenticate"), Route("POST", "/"), Route("GET", "/"), Route("GET", "/:id"),
      Route("PATCH", "/:id"), Route("DELETE", "/:id")>>

lifestyleRouter ==
    <<Use("authenticate"), Route("GET", "/"), Route("PUT", "/"), Route("DELETE", "/"),
      Route("PATCH", "/habit")>>

documentRouter ==
    <<Use("authenticate"), Route("POST", "/upload"), Route("POST", "/:id/confirm"),
      Route("GET", "/"), Route("GET", "/:id"), Route("PATCH", "/:id"), Route("DELETE", "/:id")>>

healthPassRouter ==
    <<Route("GET", "/access/:accessCode"), Use("authenticate"), Route("POST", "/"),
      Route("GET", "/"), Route("GET", "/:id"), Route("PATCH", "/:id"),
      Route("POST", "/:id/regenerate-qr"), Route("PATCH", "/:id/toggle-item")>>

autocompleteRouter ==
    <<Use("authenticate"), Route("GET", "/medical-conditions"), Route("GET", "/medications"),
      Route("GET", "/allergies"), Route("POST", "/scan-medicine")>>

\* The routes registered on the application itself.
appRoutes == <<Route("GET", "/health"), Route("GET", "/openapi.json")>>

\* The routers by the path they are mounted on.
Routers ==
    [app |-> appRoutes, auth |-> authRouter, users |-> userRouter,
     medicalConditions |-> medicalConditionRouter, medications |-> medicationRouter,
     allergies |-> allergyRouter, lifestyles |-> lifestyleRouter,
     documents |-> documentRouter, healthPasses |-> healthPassRouter,
     autocomplete |-> autocompleteRouter]

\* The middleware registered on the router before layer k.
UsedBefore(router, k) ==
    {Routers[router][j].path : j \in {i \in 1..(k - 1) : Routers[router][i].kind = "use"}}

\* The routes whose handler chain starts with validateBody(RefreshTokenDto).
ValidatesRefreshBody(router, k) == router = "auth" /\ Routers[router][k].path = "/refresh"

NoHttpRequest ==
    [router |-> "", method |-> "", path |-> "", authHeader |-> <<>>, body |-> Undefined,
     status |-> 0, served |-> FALSE, user |-> ""]

NoHttp == [count |-> 0, serviceCalls |-> 0, last |-> NoHttpRequest]

\* One request to the route at layer k of a router.  body is the refreshToken
\* field of the body (read by /auth/refresh only).  A request that reaches its
\* controller makes one service call; the status the controller answers with
\* is kept as 200, except for /auth/refresh, whose service call is followed.
HttpRequest(router, k, authHeader, body) ==
    /\ http.count < MaxHttpRequests
    /\ Routers[router][k].kind = "route"
    /\ LET layer == Routers[router][k]
           checked == IF "authenticate" \in UsedBefore(router, k)
                      THEN authenticate(authHeader)
                      ELSE Passed("")
           received == [NoHttpRequest EXCEPT !.router = router, !.method = layer.method,
                                             !.path = layer.path, !.authHeader = authHeader,
                                             !.body = body]
           served == IF ValidatesRefreshBody(router, k) THEN refreshToken(body) ELSE Passed("")
       IN  IF ~checked.ok
           THEN http' = [count |-> http.count + 1, serviceCalls |-> http.serviceCalls,
                         last |-> [received EXCEPT !.status = errorHandler(checked.error).status]]
           ELSE IF ValidatesRefreshBody(router, k) /\ body = Undefined
           THEN http' = [count |-> http.count + 1, serviceCalls |-> http.serviceCalls,
                         last |-> [received EXCEPT !.status = 400]]
           ELSE http' = [count |-> http.count + 1, serviceCalls |-> http.serviceCalls + 1,
                         last |-> [received EXCEPT
                                     !.status = IF served.ok THEN 200
                                                ELSE errorHandler(served.error).status,
                                     !.served = TRUE,
                                     !.user = checked.value]]
    /\ UNCHANGED <<ctl, ai, rs, ls, us, tg, cr, now, passes, records, reqs, codesIssued, expiredCodes, scans, lastOp, calls>>

\* ------------------------------------------------------------------------
\* The lifestyle service
\* ------------------------------------------------------------------------
HabitCategories == {"smoking", "alcohol"}
HabitFrequencies == {"not_set", "daily"}

\* LifestyleService.getDefaultHabits
getDefaultHabits == [category \in HabitCategories |-> "not_set"]

\* The habit lists that update is called with.
HabitLists == {getDefaultHabits, [category \in {"smoking"} |-> "daily"]}

\* Mutant: the lookup finds nothing.
findOneActiveLifestyleNever(userId) == 0

\* LifestyleModel.findOne({ userId, isActive: true }): the _id found, 0 for null.
findOneActiveLifestyle(userId) ==
    LET found == {id \in DOMAIN ls.docs : ls.docs[id].userId = userId /\ ls.docs[id].isActive}
    IN  IF found = {} THEN 0 ELSE CHOOSE id \in found : \A other \in found : id <= other

\* The unique index on userId of the Lifestyle schema: an insert is refused
\* when a document of the collection, active or not, has the userId.
DuplicateLifestyleKey(userId) == \E id \in DOMAIN ls.docs : ls.docs[id].userId = userId

\* The error of a refused insert as errorHandler answers it.
DuplicateEntry == [statusCode |-> 409, message |-> "Duplicate Entry"]

NoLifestyleOp == [op |-> "none", userId |-> "", outcome |-> "", id |-> 0, flip |-> FALSE]

\* LifestyleModel.create({ userId, habits }) as the step of an operation.
CreateLifestyle(op, userId, habits) ==
    IF DuplicateLifestyleKey(userId)
    THEN ls' = [ls EXCEPT !.ops = @ + 1,
                          !.last = [op |-> op, userId |-> userId,
                                    outcome |-> DuplicateEntry.message, id |-> 0,
                                    flip |-> ~ls.last.flip]]
    ELSE ls' = [docs |-> Append(ls.docs, [userId |-> userId, isActive |-> TRUE,
                                          habits |-> habits]),
                ops |-> ls.ops + 1,
                last |-> [op |-> op, userId |-> userId, outcome |-> "ok",
                          id |-> Len(ls.docs) + 1, flip |-> ~ls.last.flip]]

\* The operation found the active record; it stores `habits` in it.
StoreLifestyle(op, userId, id, habits) ==
    ls' = [docs |-> [ls.docs EXCEPT ![id].habits = habits],
           ops |-> ls.ops + 1,
           last |-> [op |-> op, userId |-> userId, outcome |-> "ok", id |-> id,
                     flip |-> ~ls.last.flip]]

\* LifestyleService.getOrCreate
GetOrCreate(userId) ==
    /\ ls.ops < MaxLifestyleOps
    /\ LET lifestyle == findOneActiveLifestyle(userId)
       IN  IF lifestyle = 0
           THEN CreateLifestyle("getOrCreate", userId, getDefaultHabits)
           ELSE StoreLifestyle("getOrCreate", userId, lifestyle, ls.docs[lifestyle].habits)
    /\ UNCHANGED <<ctl, ai, rs, http, us, tg, cr, now, passes, records, reqs, codesIssued, expiredCodes, scans, lastOp, calls>>

\* LifestyleService.update
UpdateLifestyle(userId, habits) ==
    /\ ls.ops < MaxLifestyleOps
    /\ LET lifestyle == findOneActiveLifestyle(userId)
       IN  IF lifestyle = 0
           THEN CreateLifestyle("update", userId, habits)
           ELSE StoreLifestyle("update", userId, lifestyle, habits)
    /\ UNCHANGED <<ctl, ai, rs, http, us, tg, cr, now, passes, records, reqs, codesIssued, expiredCodes, scans, lastOp, calls>>

\* LifestyleService.updateHabit
UpdateHabit(userId, category, frequency) ==
    /\ ls.ops < MaxLifestyleOps
    /\ LET lifestyle == findOneActiveLifestyle(userId)
       IN  IF lifestyle = 0
           THEN CreateLifestyle("updateHabit", userId, [c \in {category} |-> frequency])
           ELSE StoreLifestyle("updateHabit", userId, lifestyle,
                               [c \in DOMAIN ls.docs[lifestyle].habits \cup {category} |->
                                   IF c = category THEN frequency
                                   ELSE ls.docs[lifestyle].habits[c]])
    /\ UNCHANGED <<ctl, ai, rs, http, us, tg, cr, now, passes, records, reqs, codesIssued, expiredCodes, scans, lastOp, calls>>

\* LifestyleService.delete
DeleteLifestyle(userId) ==
    /\ ls.ops < MaxLifestyleOps
    /\ LET result == findOneActiveLifestyle(userId)
       IN  IF result = 0
           THEN ls' = [ls EXCEPT !.ops = @ + 1,
                                 !.last = [op |-> "delete", userId |-> userId,
                                           outcome |-> NotFoundError("Lifestyle not found").message,
                                           id |-> 0, flip |-> ~ls.last.flip]]
           ELSE ls' = [docs |-> [ls.docs EXCEPT ![result].isActive = FALSE],
                       ops |-> ls.ops + 1,
                       last |-> [op |-> "delete", userId |-> userId, outcome |-> "ok",
                                 id |-> result, flip |-> ~ls.last.flip]]
    /\ UNCHANGED <<ctl, ai, rs, http, us, tg, cr, now, passes, records, reqs, codesIssued, expiredCodes, scans, lastOp, calls>>

NoLifestyles == [docs |-> <<>>, ops |-> 0, last |-> NoLifestyleOp]

\* ------------------------------------------------------------------------
\* Identity verification
\* ------------------------------------------------------------------------
GovernmentIds == {"g1", "g2"}

\* Mutant: the users collection has no unique index.
DuplicateGovernmentIdNoIndex(governmentId) == FALSE

\* The unique index on governmentId of the User schema: an insert is refused
\* when a document of the collection has the governmentId.
DuplicateGovernmentId(governmentId) ==
    \E id \in DOMAIN us.docs : us.docs[id].governmentId = governmentId

\* UserService.findByGovernmentId: the _id found, 0 for null.
findByGovernmentId(governmentId) ==
    LET found == {id \in DOMAIN us.docs : us.docs[id].governmentId = governmentId}
    IN  IF found = {} THEN 0 ELSE CHOOSE id \in found : \A other \in found : id <= other

NoLoginResponse == [status |-> 0, isNewUser |-> FALSE, userId |-> 0]

\* LoginResponseDto as the controller sends it.
LoginResponse(isNewUser, userId) == [status |-> 200, isNewUser |-> isNewUser, userId |-> userId]

IdleVerification ==
    [pc |-> "idle", governmentId |-> "", existingUser |-> 0, existedAtInsert |-> FALSE,
     response |-> NoLoginResponse]

\* processIdData up to its first await: userService.findByGovernmentId.
VerifyLookup(r, governmentId) ==
    /\ us.started < MaxVerifications
    /\ us.reqs[r].pc = "idle"
    /\ r = "a2" => us.reqs["a1"].pc # "idle"
    /\ us' = [us EXCEPT !.started = @ + 1,
                        !.reqs[r] = [IdleVerification EXCEPT
                                        !.pc = "looked",
                                        !.governmentId = governmentId,
                                        !.existingUser = findByGovernmentId(governmentId)]]
    /\ UNCHANGED <<ctl, ai, rs, http, ls, tg, cr, now, passes, records, reqs, codesIssued, expiredCodes, scans, lastOp, calls>>

\* The user exists: login.
VerifyLogin(r) ==
    /\ us.reqs[r].pc = "looked"
    /\ us.reqs[r].existingUser # 0
    /\ us' = [us EXCEPT !.reqs[r].pc = "done",
                        !.reqs[r].response = LoginResponse(FALSE, us.reqs[r].existingUser)]
    /\ UNCHANGED <<ctl, ai, rs, http, ls, tg, cr, now, passes, records, reqs, codesIssued, expiredCodes, scans, lastOp, calls>>

\* New user: userService.create, UserModel.create under the unique index.
VerifyCreate(r) ==
    /\ us.reqs[r].pc = "looked"
    /\ us.reqs[r].existingUser = 0
    /\ IF DuplicateGovernmentId(us.reqs[r].governmentId)
       THEN us' = [us EXCEPT !.reqs[r].pc = "done",
                             !.reqs[r].existedAtInsert = TRUE,
                             !.reqs[r].response =
                                 [NoLoginResponse EXCEPT !.status = DuplicateEntry.statusCode]]
       ELSE us' = [us EXCEPT !.docs = Append(@, [governmentId |-> us.reqs[r].governmentId]),
                             !.reqs[r].pc = "done",
                             !.reqs[r].existedAtInsert =
                                 findByGovernmentId(us.reqs[r].governmentId) # 0,
                             !.reqs[r].response = LoginResponse(TRUE, Len(us.docs) + 1)]
    /\ UNCHANGED <<ctl, ai, rs, http, ls, tg, cr, now, passes, records, reqs, codesIssued, expiredCodes, scans, lastOp, calls>>

\* The response has been sent; the request slot is free again.
VerifyFinish(r) ==
    /\ us.reqs[r].pc = "done"
    /\ us' = [us EXCEPT !.reqs[r] = IdleVerification]
    /\ UNCHANGED <<ctl, ai, rs, http, ls, tg, cr, now, passes, records, reqs, codesIssued, expiredCodes, scans, lastOp, calls>>

NoUsers == [docs |-> <<>>, started |-> 0, reqs |-> [r \in Requests |-> IdleVerification]]

\* ------------------------------------------------------------------------
\* toggleItem step by step
\* ------------------------------------------------------------------------
\* The item IDs that the requests name (toggleItem does not look the item up).
ToggleItemIds == {1, 2}

IdleToggle ==
    [pc |-> "idle", id |-> "", itemType |-> "", itemId |-> 0, isEnabled |-> FALSE,
     currentArray |-> <<>>]

\* toggleItem up to its first await: HealthPassModel.findById(id) and the list
\* of the document read.
ToggleRead(r, id, itemType, itemId, isEnabled) ==
    /\ calls < MaxCalls
    /\ calls' = calls + 1
    /\ tg[r].pc = "idle"
    /\ r = "a2" => tg["a1"].pc # "idle"
    /\ id \in PassIds
    /\ tg' = [tg EXCEPT ![r] = [pc |-> "read", id |-> id, itemType |-> itemType,
                                 itemId |-> itemId, isEnabled |-> isEnabled,
                                 currentArray |-> passes[id].dataToggles.specific[itemType]]]
    /\ UNCHANGED <<ctl, ai, rs, http, ls, us, cr, now, passes, records, reqs, codesIssued, expiredCodes, scans, lastOp>>

\* toggleItem from updatedArray on: the $set of the list computed from the
\* document read.
ToggleWrite(r) ==
    /\ tg[r].pc = "read"
    /\ passes' = [passes EXCEPT ![tg[r].id] =
                      ToggleUpdate(@, tg[r].itemType,
                                   ToggledArray(tg[r].currentArray, tg[r].itemId, tg[r].isEnabled))]
    /\ tg' = [tg EXCEPT ![r].pc = "written"]
    /\ UNCHANGED <<ctl, ai, rs, http, ls, us, cr, now, records, reqs, codesIssued, expiredCodes, scans, lastOp, calls>>

NoToggleRequests == [r \in Requests |-> IdleToggle]

\* ------------------------------------------------------------------------
\* AllergyService.create and MedicationService.create step by step
\* ------------------------------------------------------------------------
\* The names the concurrent requests carry: letters only.
PlainNames == {<<"n">>, <<"N">>, <<"m">>}

PlainKeys(kind) ==
    IF kind = "allergy" THEN {<<n>> : n \in PlainNames}
    ELSE {<<n, d>> : n \in PlainNames, d \in {<<"1">>}}

IdleCreate == [pc |-> "idle", kind |-> "", userId |-> "", key |-> <<>>, outcome |-> ""]

\* create up to its first await: the duplicate check and the ConflictError.
CreateCheck(r, kind, userId, dtoKey) ==
    /\ rs.ops < MaxRecordOps
    /\ cr[r].pc = "idle"
    /\ r = "a2" => cr["a1"].pc # "idle"
    /\ LET key == [f \in 1..Len(dtoKey) |-> trim(dtoKey[f])]
           asked == [IdleCreate EXCEPT !.kind = kind, !.userId = userId, !.key = key]
       IN  IF findOneDuplicate(kind, userId, key, 0) # {}
           THEN cr' = [cr EXCEPT ![r] = [asked EXCEPT !.pc = "done",
                                                      !.outcome = "ConflictError"]]
           ELSE cr' = [cr EXCEPT ![r] = [asked EXCEPT !.pc = "checked"]]
    /\ rs' = [rs EXCEPT !.ops = @ + 1]
    /\ UNCHANGED <<ctl, ai, http, ls, us, tg, now, passes, records, reqs, codesIssued, calls, expiredCodes, scans, lastOp>>

\* create from <Model>.create on: the insert.
CreateInsert(r) ==
    /\ cr[r].pc = "checked"
    /\ rs' = [rs EXCEPT !.docs = Append(@, [kind |-> cr[r].kind, userId |-> cr[r].userId,
                                            key |-> cr[r].key, isActive |-> TRUE])]
    /\ cr' = [cr EXCEPT ![r].pc = "done", ![r].outcome = "created"]
    /\ UNCHANGED <<ctl, ai, http, ls, us, tg, now, passes, records, reqs, codesIssued, calls, expiredCodes, scans, lastOp>>

\* The response has been sent; the request slot is free again.
CreateFinish(r) ==
    /\ cr[r].pc = "done"
    /\ cr' = [cr EXCEPT ![r] = IdleCreate]
    /\ UNCHANGED <<ctl, ai, rs, http, ls, us, tg, now, passes, records, reqs, codesIssued, calls, expiredCodes, scans, lastOp>>

NoCreateRequests == [r \in Requests |-> IdleCreate]

\* ------------------------------------------------------------------------
\* HealthPassController and AllergyController: the routes that name a
\* resource by its ID. The caller is req.user.userId, set by authenticate;
\* the controllers hand req.params.id alone to the service.
\* ------------------------------------------------------------------------
NoByIdCall ==
    [caller |-> "", resource |-> "", op |-> "", owner |-> "",
     changed |-> FALSE, data |-> FALSE]

\* What became of a by-ID request: whose resource the ID names ("" when the
\* service threw NotFoundError), whether the stored resource changed, and
\* whether res.json carried data of the resource.
ByIdCall(caller, resource, op, owner, changed, data) ==
    [caller |-> caller, resource |-> resource, op |-> op, owner |-> owner,
     changed |-> changed, data |-> data]

\* HealthPassController.findById: GET /health-passes/:id
HealthPassControllerFindById(caller, id) ==
    /\ ctl' = IF id \in PassIds
              THEN ByIdCall(caller, "healthPass", "findById", passes[id].userId, FALSE, TRUE)
              ELSE ByIdCall(caller, "healthPass", "findById", "", FALSE, FALSE)
    /\ UNCHANGED <<ai, rs, http, ls, us, tg, cr, now, passes, records, reqs, codesIssued, calls,
                   expiredCodes, scans, lastOp>>

\* HealthPassController.update: PATCH /health-passes/:id
HealthPassControllerUpdate(caller, id, dto) ==
    /\ Update(id, dto)
    /\ ctl' = ByIdCall(caller, "healthPass", "update", passes[id].userId,
                       passes'[id] # passes[id], TRUE)

\* HealthPassController.regenerateQr: POST /health-passes/:id/regenerate-qr
HealthPassControllerRegenerateQr(caller, id) ==
    /\ RegenerateQrCode(id)
    /\ ctl' = IF id \in PassIds
              THEN ByIdCall(caller, "healthPass", "regenerateQr", passes[id].userId,
                            passes'[id] # passes[id], TRUE)
              ELSE ByIdCall(caller, "healthPass", "regenerateQr", "", FALSE, FALSE)

\* AllergyController.findById: GET /allergies/:id. AllergyModel.findById
\* does not look at isActive.
AllergyControllerFindById(caller, id) ==
    /\ id \in DOMAIN rs.docs
    /\ ctl' = ByIdCall(caller, rs.docs[id].kind, "findById", rs.docs[id].userId, FALSE, TRUE)
    /\ UNCHANGED <<ai, rs, http, ls, us, tg, cr, now, passes, records, reqs, codesIssued, calls,
                   expiredCodes, scans, lastOp>>

\* AllergyController.update: PATCH /allergies/:id
AllergyControllerUpdate(caller, id, dtoKey) ==
    /\ UpdateKeyed(id, dtoKey)
    /\ ctl' = ByIdCall(caller, rs.docs[id].kind, "update", rs.docs[id].userId,
                       rs'.docs[id] # rs.docs[id], rs'.last.outcome = "updated")

\* AllergyController.delete: DELETE /allergies/:id
AllergyControllerDelete(caller, id) ==
    /\ DeleteKeyed(id)
    /\ ctl' = ByIdCall(caller, rs.docs[id].kind, "delete", rs.docs[id].userId,
                       rs'.docs[id] # rs.docs[id], FALSE)

\* ------------------------------------------------------------------------
\* Specification
\* ------------------------------------------------------------------------
\* The store after start-up: no pass, no record, no request in flight.
StoreInit ==
    /\ now = 0
    /\ passes = [id \in {} |-> 0]
    /\ records = <<>>
    /\ reqs = [r \in Requests |-> IdleReq]
    /\ codesIssued = 0
    /\ calls = 0
    /\ expiredCodes = {}
    /\ scans = [id \in {} |-> 0]
    /\ lastOp = NoOp

Init ==
    /\ StoreInit
    /\ ai = NoAiCall
    /\ rs = NoRecords
    /\ http = NoHttp
    /\ ls = NoLifestyles
    /\ us = NoUsers
    /\ tg = NoToggleRequests
    /\ cr = NoCreateRequests
    /\ ctl = NoByIdCall

Next ==
    \/ Tick
    \/ \E u \in PassOwners, c \in Categories : CreateRecord(u, c)
    \/ \E u \in Users \ PassOwners : CreateRecord(u, "medicalCondition")
    \/ \E id \in RecordIds : DeleteRecord(id)
    \/ \E u \in PassOwners, response \in AiResponses : Create(u, response, {})
    \/ \E u \in PassOwners, failing \in (SUBSET Categories) \ {{}} :
          Create(u, FailedResponse("throws", Categories), failing)
    \/ \E id \in PassIds, dto \in UpdateDtos : Update(id, dto) /\ UNCHANGED ctl
    \/ \E id \in PassIdSpace : RegenerateQrCode(id) /\ UNCHANGED ctl
    \/ \E id \in PassIds, c \in Categories, itemId \in RecordIds, e \in BOOLEAN :
          ToggleItem(id, c, itemId, e)
    \/ \E r \in Requests, code \in (1..codesIssued) \cup {UnknownCode} : AccessLookup(r, code)
    \/ \E r \in Requests : AccessCheck(r)
    \/ \E r \in Requests : AccessMarkExpired(r)
    \/ \E r \in Requests : AccessTrack(r)
    \/ \E r \in Requests : AccessRender(r)
    \/ \E r \in Requests : AccessRenderSummaries(r)
    \/ \E r \in Requests : AccessFinish(r)

Spec == Init /\ [][Next]_vars

\* ------------------------------------------------------------------------
\* The recommendation composer on its own: every call with up to two items
\* per category, answered in every way the collaborator can answer
\* ------------------------------------------------------------------------
InitAi ==
    /\ StoreInit
    /\ ai \in AiCalls
    /\ rs = NoRecords
    /\ http = NoHttp
    /\ ls = NoLifestyles
    /\ us = NoUsers
    /\ tg = NoToggleRequests
    /\ cr = NoCreateRequests
    /\ ctl = NoByIdCall

NextAi == Recommend

SpecAi == InitAi /\ [][NextAi]_vars

\* ------------------------------------------------------------------------
\* The allergy and medication services on their own
\* ------------------------------------------------------------------------
NextRecords ==
    \/ \E kind \in Kinds, u \in Users : \E key \in CreateKeys(kind) : CreateKeyed(kind, u, key)
    \/ \E id \in DOMAIN rs.docs : \E key \in UpdateKeys(rs.docs[id].kind) : UpdateKeyed(id, key) /\ UNCHANGED ctl
    \/ \E id \in DOMAIN rs.docs : DeleteKeyed(id) /\ UNCHANGED ctl

SpecRecords == Init /\ [][NextRecords]_vars

\* ------------------------------------------------------------------------
\* The HTTP layer on its own
\* ------------------------------------------------------------------------
NextHttp ==
    \E router \in DOMAIN Routers :
        \E k \in 1..Len(Routers[router]), authHeader \in AuthorizationHeaders :
            \E body \in IF ValidatesRefreshBody(router, k)
                         THEN Tokens \cup {Undefined} ELSE {Undefined} :
                HttpRequest(router, k, authHeader, body)

SpecHttp == Init /\ [][NextHttp]_vars

\* ------------------------------------------------------------------------
\* The lifestyle service on its own
\* ------------------------------------------------------------------------
NextLifestyle ==
    \/ \E u \in Users : GetOrCreate(u)
    \/ \E u \in Users, habits \in HabitLists : UpdateLifestyle(u, habits)
    \/ \E u \in Users, category \in HabitCategories, frequency \in HabitFrequencies :
          UpdateHabit(u, category, frequency)
    \/ \E u \in Users : DeleteLifestyle(u)

SpecLifestyle == Init /\ [][NextLifestyle]_vars

\* ------------------------------------------------------------------------
\* Identity verification on its own
\* ------------------------------------------------------------------------
NextAuth ==
    \/ \E r \in Requests, governmentId \in GovernmentIds : VerifyLookup(r, governmentId)
    \/ \E r \in Requests : VerifyLogin(r)
    \/ \E r \in Requests : VerifyCreate(r)
    \/ \E r \in Requests : VerifyFinish(r)

SpecAuth == Init /\ [][NextAuth]_vars

\* ------------------------------------------------------------------------
\* Two toggleItem requests on their own
\* ------------------------------------------------------------------------
NextToggle ==
    \/ \E u \in PassOwners, c \in Categories : CreateRecord(u, c)
    \/ \E u \in PassOwners, response \in AiResponses : Create(u, response, {})
    \/ \E r \in Requests, id \in PassIds, c \in Categories, itemId \in ToggleItemIds,
          e \in BOOLEAN : ToggleRead(r, id, c, itemId, e)
    \/ \E r \in Requests : ToggleWrite(r)

SpecToggle == Init /\ [][NextToggle]_vars

\* ------------------------------------------------------------------------
\* Concurrent creates of the allergy and medication services on their own
\* ------------------------------------------------------------------------
NextCreateRace ==
    \/ \E r \in Requests, kind \in Kinds, u \in Users : \E key \in PlainKeys(kind) :
          CreateCheck(r, kind, u, key)
    \/ \E r \in Requests : CreateInsert(r)
    \/ \E r \in Requests : CreateFinish(r)

SpecCreateRace == Init /\ [][NextCreateRace]_vars

\* ------------------------------------------------------------------------
\* The by-ID routes of the health pass and allergy controllers on their own,
\* called by either user
\* ------------------------------------------------------------------------
\* The payloads the by-ID requests are sent with: two allergens, and the
\* update payloads that leave the required toggles on.
OwnershipKeys == {<<<<"n">>>>, <<<<"m">>>>}

OwnershipDtos ==
    {dto \in UpdateDtos : dto.dataToggles.name /\ dto.dataToggles.gender /\ dto.dataToggles.dateOfBirth}

NextOwnership ==
    \/ \E u \in PassOwners : Create(u, FailedResponse("throws", Categories), {})
    \/ \E caller \in Users, id \in PassIdSpace : HealthPassControllerFindById(caller, id)
    \/ \E caller \in Users, id \in PassIds, dto \in OwnershipDtos :
          HealthPassControllerUpdate(caller, id, dto)
    \/ \E caller \in Users, id \in PassIdSpace : HealthPassControllerRegenerateQr(caller, id)
    \/ \E u \in Users : \E key \in OwnershipKeys : CreateKeyed("allergy", u, key)
    \/ \E caller \in Users, id \in DOMAIN rs.docs : AllergyControllerFindById(caller, id)
    \/ \E caller \in Users, id \in DOMAIN rs.docs : \E key \in OwnershipKeys :
          AllergyControllerUpdate(caller, id, key)
    \/ \E caller \in Users, id \in DOMAIN rs.docs : AllergyControllerDelete(caller, id)

SpecOwnership == Init /\ [][NextOwnership]_vars

\* ------------------------------------------------------------------------
\* Properties
\* ------------------------------------------------------------------------
Rejected(r) == reqs[r].pc = "done" /\ reqs[r].response.status = 404 /\ ~reqs[r].response.success

Previewed(r) == reqs[r].pc = "done" /\ reqs[r].response.status = 200 /\ reqs[r].response.success

\* C1: an access by code checked after expiresAt is rejected with NotFoundError
\* (404) and its write leaves the stored status expired; every access started
\* later with the same code is rejected with NotFoundError as well.
C1_ExpiredAccessRejected ==
    /\ [][\A r \in Requests :
            (/\ reqs[r].pc = "updating"
             /\ reqs[r].checkedAt > reqs[r].healthPass.expiresAt
             /\ reqs'[r] # reqs[r])
            => /\ reqs'[r].pc = "done"
               /\ reqs'[r].response.status = 404
               /\ ~reqs'[r].response.success
               /\ passes'[reqs[r].healthPass.id].status = "expired"]_vars
    /\ [](\A r \in Requests :
            reqs[r].afterExpiry =>
                /\ reqs[r].pc # "rendering"
                /\ reqs[r].pc = "done" => Rejected(r))

\* A second access with the code of a pass already rejected as expired has
\* found the pass again and has been rejected again.
C1_Witness ==
    \E r \in Requests :
        /\ Rejected(r)
        /\ reqs[r].afterExpiry
        /\ reqs[r].existed
        /\ passes[reqs[r].healthPass.id].status = "expired"

\* C2: every item of a preview is an active record of the pass's owner whose
\* ID is in the category's specific-ID list (so an empty list yields no item,
\* and a record soft-deleted after creation is not shown).
C2_PreviewItemsListedAndActive ==
    [][\A r \in Requests :
          (reqs[r].pc = "rendering" /\ reqs'[r].pc = "done")
          => \A c \in Categories : \A id \in Range(reqs'[r].response.items[c]) :
                /\ id \in RecordIds
                /\ records[id].isActive
                /\ records[id].userId = reqs[r].healthPass.userId
                /\ Includes(reqs[r].healthPass.dataToggles.specific[c], id)]_vars

\* C3: once the stored status is expired it stays expired.
C3_ExpiredIsTerminal ==
    [][\A id \in PassIds :
          passes[id].status = "expired" => passes'[id].status = "expired"]_vars

\* C4: under every interleaving of concurrent accesses by code the stored
\* status never changes from expired back to shared.
C4_NoResurrectionByConcurrentScan ==
    [][\A id \in PassIds :
          passes[id].status = "expired" => passes'[id].status # "shared"]_vars

\* C5: the write of every access checked inside the window sets status to
\* shared, sets lastAccessedAt and adds exactly 1 to accessCount; the stored
\* accessCount equals the number of such accesses, however they interleave.
C5_EveryScanCounted ==
    /\ [][\A r \in Requests :
            (/\ reqs[r].pc = "updating"
             /\ reqs[r].checkedAt <= reqs[r].healthPass.expiresAt
             /\ reqs'[r] # reqs[r])
            => LET id == reqs[r].healthPass.id
               IN  /\ passes'[id].status = "shared"
                   /\ passes'[id].lastAccessedAt = reqs[r].checkedAt
                   /\ passes'[id].accessCount = passes[id].accessCount + 1]_vars
    /\ [](\A id \in PassIds : passes[id].accessCount = scans[id])

\* Two scans of the same pass that overlapped have both been counted.
C5_Witness ==
    \E r1, r2 \in Requests :
        /\ r1 # r2
        /\ reqs[r1].pc = "rendering"
        /\ reqs[r2].pc = "rendering"
        /\ reqs[r1].healthPass.id = reqs[r2].healthPass.id
        /\ passes[reqs[r1].healthPass.id].accessCount = 2
        /\ passes[reqs[r1].healthPass.id].status = "shared"

\* C6: accessCount never decreases.
C6_AccessCountMonotonic ==
    [][\A id \in PassIds : passes'[id].accessCount >= passes[id].accessCount]_vars

\* A pass that was scanned and then regenerated keeps its count.
C6_Witness ==
    \E id \in PassIds :
        /\ passes[id].accessCount > 0
        /\ passes[id].status = "generated"

\* C7: a finished access either found a pass inside its window and returned a
\* preview, or was rejected with NotFoundError; never both, never anything else.
C7_PreviewXorNotFound ==
    \A r \in Requests :
        reqs[r].pc = "done" =>
            LET inWindow == reqs[r].existed /\ reqs[r].checkedAt <= reqs[r].healthPass.expiresAt
            IN  /\ inWindow <=> Previewed(r)
                /\ ~inWindow <=> Rejected(r)
                /\ ~(Previewed(r) /\ Rejected(r))

\* A preview was returned for an access checked exactly at expiresAt.
C7_Witness ==
    \E r \in Requests :
        /\ Previewed(r)
        /\ reqs[r].existed
        /\ reqs[r].checkedAt = reqs[r].healthPass.expiresAt

\* The response to an access code that was never issued.
UnknownCodeResponse == errorHandler(NotFoundError("Health pass not found"))

\* C8: the response for an expired pass is identical to the response for a
\* code that never existed.
C8_RejectionsIndistinguishable ==
    \A r \in Requests : Rejected(r) => reqs[r].response = UnknownCodeResponse

\* C9: the toggles name, gender and dateOfBirth of every stored pass are true.
C9_RequiredTogglesOn ==
    \A id \in PassIds :
        /\ passes[id].dataToggles.name
        /\ passes[id].dataToggles.gender
        /\ passes[id].dataToggles.dateOfBirth

\* The last call was an update whose payload turned a required toggle off.
C9_Witness ==
    /\ lastOp.op = "update"
    /\ lastOp.requiredOff
    /\ PassIds # {}

\* C10: toggling twice with the same arguments gives the list that toggling
\* once gives, and toggling an item already in the requested state leaves the
\* list as it is.
C10_ToggleIdempotent ==
    \A id \in PassIds : \A c \in Categories : \A itemId \in RecordIds : \A e \in BOOLEAN :
        LET current == passes[id].dataToggles.specific[c]
            once == ToggledArray(current, itemId, e)
        IN  /\ ToggledArray(once, itemId, e) = once
            /\ (Includes(current, itemId) <=> e) => once = current

\* The last call enabled an item that was already in the list, and the list
\* still holds an item.
C10_Witness ==
    /\ lastOp.op = "toggleItem"
    /\ lastOp.noop
    /\ lastOp.isEnabled
    /\ \E id \in PassIds : \E c \in Categories : Len(passes[id].dataToggles.specific[c]) > 0

\* The list that the last toggleItem wrote.
LastToggledList == passes[lastOp.id].dataToggles.specific[lastOp.itemType]

\* C11 as stated: toggleItem(enabled=false) followed by toggleItem(enabled=true)
\* on the same item leaves the list with the membership it had before the two
\* calls, whatever the item.
C11_RoundTripAnyItem ==
    (lastOp.op = "toggleItem" /\ lastOp.roundTrip)
        => Range(LastToggledList) = lastOp.origin

\* C11 amended: for an item that is in the list before the two calls,
\* toggleItem(enabled=false) followed by toggleItem(enabled=true) on that item
\* leaves the list with the membership it had before the two calls.
C11_RoundTripListedItem ==
    (lastOp.op = "toggleItem" /\ lastOp.roundTrip /\ lastOp.itemId \in lastOp.origin)
        => Range(LastToggledList) = lastOp.origin

\* An item of the list was disabled and enabled again.
C11_Witness ==
    /\ lastOp.op = "toggleItem"
    /\ lastOp.roundTrip
    /\ lastOp.itemId \in lastOp.origin
    /\ lastOp.itemId \notin lastOp.before

\* C12: toggleItem changes nothing of a pass but the specific-ID list of the
\* category it is called for: the lists of the other categories, the category
\* toggles and the stored AI recommendations are as before.
C12_ToggleItemFrame ==
    [][(lastOp' # lastOp /\ lastOp'.op = "toggleItem")
        => \A id \in PassIds :
             /\ \A c \in Categories \ {lastOp'.itemType} :
                   passes'[id].dataToggles.specific[c] = passes[id].dataToggles.specific[c]
             /\ passes'[id].aiItemRecommendations = passes[id].aiItemRecommendations
             /\ passes'[id] = [passes[id] EXCEPT !.dataToggles.specific[lastOp'.itemType] =
                                   passes'[id].dataToggles.specific[lastOp'.itemType]]]_vars

\* An item was toggled in one category while the other category's list and
\* the recommendations hold entries.
C12_Witness ==
    /\ lastOp.op = "toggleItem"
    /\ ~lastOp.noop
    /\ \E c \in Categories \ {lastOp.itemType} : Len(passes[lastOp.id].dataToggles.specific[c]) > 0
    /\ \E c \in Categories : Len(passes[lastOp.id].aiItemRecommendations[c]) > 0

\* The owner's active records of a category.
ActiveRecordsOf(userId, c) ==
    {r \in RecordIds : /\ records[r].userId = userId
                       /\ records[r].category = c
                       /\ records[r].isActive}

\* The IDs that a list of recommendations judges relevant.
JudgedRelevant(recs) == {recs[i].id : i \in {j \in 1..Len(recs) : recs[j].isRelevant}}

C14_ToggleIffListNonEmpty ==
    \A id \in PassIds : \A c \in Categories :
        passes[id].dataToggles.enabled[c] <=> Len(passes[id].dataToggles.specific[c]) > 0

\* The IDs of a list of judgments, in order.
JudgedIds(recs) == [i \in 1..Len(recs) |-> recs[i].id]

\* C15: the call returns exactly one judgment for every item passed in, in
\* every category, and none for any other ID; an item that a parsed answer
\* omits is judged relevant if it is a condition, a medication or an allergy
\* and not relevant if it is a lifestyle item or a document.
C15_OneJudgmentPerItemWithDefaults ==
    ai.pc = "returned" =>
        \A c \in AiCategories :
            /\ JudgedIds(ai.result.value[c]) = ai.userData[c]
            /\ ai.response.outcome = "parsed" =>
                  \A i \in 1..Len(ai.userData[c]) :
                      (\A k \in 1..Len(ai.response.entries[c]) :
                            ai.response.entries[c][k].id # ai.userData[c][i])
                      => (ai.result.value[c][i].isRelevant
                            <=> c \in {"medicalCondition", "medication", "allergy"})

\* C16: the call never rejects; when the collaborator throws, returns no text
\* or returns text that does not parse, the call resolves to the default
\* judgments: every condition, medication and allergy relevant, every
\* lifestyle item and document not relevant.
C16_NeverRaisesDefaultsOnFailure ==
    ai.pc = "returned" =>
        /\ ~ai.result.raised
        /\ ai.response.outcome \in AiFailures =>
              \A c \in AiCategories :
                  /\ JudgedIds(ai.result.value[c]) = ai.userData[c]
                  /\ \A i \in 1..Len(ai.userData[c]) :
                        ai.result.value[c][i].isRelevant
                            <=> c \in {"medicalCondition", "medication", "allergy"}

\* The collaborator returned text that does not parse for a call that passed
\* in conditions and documents, and the call has returned.
C16_Witness ==
    /\ ai.pc = "returned"
    /\ ai.response.outcome = "malformed"
    /\ Len(ai.userData["medicalCondition"]) > 0
    /\ Len(ai.userData["document"]) > 0
    /\ Len(ai.result.value["document"]) > 0

\* C17: a Create of which one or more record fetches fail ends in an error and
\* leaves the set of stored passes as it was.
C17_FailedFetchAbortsCreate ==
    [][(lastOp' # lastOp /\ lastOp'.op = "create" /\ lastOp'.fetchFailed)
        => /\ passes' = passes
           /\ lastOp'.error # ""]_vars

\* A Create has just failed on a fetch for an owner who holds an active
\* record, and no pass is stored.
C17_Witness ==
    /\ lastOp.op = "create"
    /\ lastOp.fetchFailed
    /\ lastOp.error = "fetch rejected"
    /\ PassIds = {}
    /\ \E u \in PassOwners, c \in Categories : ActiveRecordsOf(u, c) # {}

\* Two identifying keys are the same when their fields are equal without
\* regard to case.
SameKey(k1, k2) ==
    /\ Len(k1) = Len(k2)
    /\ \A f \in 1..Len(k1) : LowerCased(k1[f]) = LowerCased(k2[f])

\* The user's active records of a kind whose key is the given one.
ActiveWithKey(kind, userId, key) ==
    {id \in DOMAIN rs.docs :
        /\ rs.docs[id].kind = kind
        /\ rs.docs[id].userId = userId
        /\ rs.docs[id].isActive
        /\ SameKey(rs.docs[id].key, key)}

\* C18: a create whose key (allergen; medication name and dosage), compared
\* without regard to case, is that of an active record of the same user fails
\* with ConflictError and stores nothing; a create with the key of a
\* soft-deleted record, when the user holds no active record of the kind,
\* succeeds.
C18_DuplicateCreateConflicts ==
    [][(rs'.ops # rs.ops /\ rs'.last.op = "create")
        => LET kind == rs'.last.kind
               userId == rs'.last.userId
               key == [f \in 1..Len(rs'.last.key) |-> trim(rs'.last.key[f])]
           IN  /\ ActiveWithKey(kind, userId, key) # {}
                     => /\ rs'.last.outcome = "ConflictError"
                        /\ rs'.docs = rs.docs
               /\ (/\ (\E id \in DOMAIN rs.docs :
                          /\ rs.docs[id].kind = kind
                          /\ rs.docs[id].userId = userId
                          /\ ~rs.docs[id].isActive
                          /\ SameKey(rs.docs[id].key, key))
                    /\ (\A other \in DOMAIN rs.docs :
                          (rs.docs[other].kind = kind /\ rs.docs[other].userId = userId)
                              => ~rs.docs[other].isActive))
                     => /\ rs'.last.outcome = "created"
                        /\ Len(rs'.docs) = Len(rs.docs) + 1]_vars

\* C19: no user holds two active allergy records with the same allergen, nor
\* two active medication records with the same name and dosage, compared
\* without regard to case.
C19_ActiveKeysUnique ==
    \A i, j \in DOMAIN rs.docs :
        (/\ i # j
         /\ rs.docs[i].kind = rs.docs[j].kind
         /\ rs.docs[i].userId = rs.docs[j].userId
         /\ rs.docs[i].isActive
         /\ rs.docs[j].isActive)
        => ~SameKey(rs.docs[i].key, rs.docs[j].key)

\* C20: every item of a preview built by generatePreview carries a rationale:
\* the recommendation stored for its ID at creation when the snapshot has the
\* ID, a generic rationale otherwise; an item whose ID the snapshot lacks
\* neither fails the preview nor comes without a rationale.
C20_EveryPreviewItemHasRationale ==
    \A r \in Requests :
        (Previewed(r) /\ reqs[r].variant = "filtered") =>
            \A c \in Categories :
                /\ Len(reqs[r].response.aiRecommendation[c]) = Len(reqs[r].response.items[c])
                /\ \A i \in 1..Len(reqs[r].response.items[c]) :
                      LET stored == reqs[r].healthPass.aiItemRecommendations[c]
                          k == FindIndex(stored, reqs[r].response.items[c][i])
                      IN  /\ reqs[r].response.aiRecommendation[c][i] # Undefined
                          /\ k # 0 =>
                                reqs[r].response.aiRecommendation[c][i] = stored[k].recommendation

\* C21: when create builds the profile summary, only items of the specific-ID
\* lists are given to the summary generator, and a category in which the owner
\* has active records of which none is given is presented as on file but not
\* shared, never as none on file.
C21_HiddenCategoryNotNoneOnFile ==
    [][(lastOp'.op = "create" /\ lastOp'.flip # lastOp.flip /\ lastOp'.error = "") =>
          LET healthPass == passes'[lastOp'.id]
          IN  \A c \in Categories :
                  LET section == healthPass.aiProfileSummary[c]
                  IN  /\ Range(section.items) \subseteq Range(healthPass.dataToggles.specific[c])
                      /\ (Len(findByUserId(healthPass.userId, c)) > 0 /\ section.items = <<>>)
                            => section.status = NoneShared]_vars

\* The request carries a valid access token.
HasValidAccessToken(authHeader) ==
    /\ Len(authHeader) >= 2
    /\ authHeader[1] = "Bearer"
    /\ authHeader[2] \in DOMAIN JwtPayloads
    /\ JwtPayloads[authHeader[2]].type = "access"

AnonymousAccessRoute(request) ==
    request.router = "healthPasses" /\ request.path = "/access/:accessCode"

\* C22 as stated: every route under /api/v1 other than anonymous pass access
\* and the identity-verification routes answers a request without a valid
\* access token with 401 and makes no service call; anonymous pass access is
\* served without a token.
C22_AllOtherRoutesRequireToken ==
    /\ (/\ http.last.router \notin {"", "app"}
        /\ ~AnonymousAccessRoute(http.last)
        /\ ~(http.last.router = "auth" /\ http.last.path \in {"/verify-id", "/extract-id"})
        /\ ~HasValidAccessToken(http.last.authHeader))
          => (http.last.status = 401 /\ ~http.last.served)
    /\ AnonymousAccessRoute(http.last) => http.last.served

\* C22 (amended): every route of the user, record, document, autocomplete and
\* health-pass routers other than anonymous pass access answers a request
\* without a valid access token with 401 and makes no service call; anonymous
\* pass access, the routes of the auth router and the routes of the
\* application itself are served without an access token.
C22_ProtectedRoutesRequireToken ==
    /\ (/\ http.last.router \notin {"", "auth", "app"}
        /\ ~AnonymousAccessRoute(http.last)
        /\ ~HasValidAccessToken(http.last.authHeader))
          => (http.last.status = 401 /\ ~http.last.served)
    /\ (/\ http.last.router # ""
        /\ (AnonymousAccessRoute(http.last) \/ http.last.router \in {"auth", "app"})
        /\ ~(http.last.path = "/refresh" /\ http.last.body = Undefined))
          => http.last.served

\* A request with a refresh token in place of the access token was answered
\* with 401 by a protected route after another request had been served.
C22_Witness ==
    /\ http.last.router = "healthPasses"
    /\ http.last.path = "/:id/toggle-item"
    /\ http.last.authHeader = <<"Bearer", "refresh-u1">>
    /\ http.last.status = 401
    /\ http.serviceCalls = 1

ActiveLifestylesOf(docs, userId) ==
    {id \in DOMAIN docs : docs[id].userId = userId /\ docs[id].isActive}

\* C23: each user has at most one active lifestyle record, and a getOrCreate
\* that follows a successful getOrCreate of the same user returns the record
\* of the first without creating another.
C23_OneActiveLifestyleAndIdempotent ==
    [][/\ \A u \in Users : Cardinality(ActiveLifestylesOf(ls'.docs, u)) <= 1
       /\ (/\ ls'.last.flip # ls.last.flip
           /\ ls'.last.op = "getOrCreate"
           /\ ls.last.op = "getOrCreate"
           /\ ls.last.outcome = "ok"
           /\ ls'.last.userId = ls.last.userId)
            => (/\ ls'.last.outcome = "ok"
                /\ ls'.last.id = ls.last.id
                /\ ls'.docs = ls.docs)]_vars

\* getOrCreate created a record and was called again for the same user while
\* another user has a record too.
C23_Witness ==
    /\ ls.last.op = "getOrCreate"
    /\ ls.last.outcome = "ok"
    /\ ls.ops >= 3
    /\ Len(ls.docs) = 2
    /\ ls.last.id = 1

\* C30: after delete, a getOrCreate, update or updateHabit of the user succeeds
\* and leaves the user with exactly one active lifestyle record; a delete for a
\* user without an active record fails with NotFoundError.
C30_RecreateAfterDelete ==
    [][ls'.last.flip # ls.last.flip =>
          /\ (/\ ls'.last.op \in {"getOrCreate", "update", "updateHabit"}
              /\ ActiveLifestylesOf(ls.docs, ls'.last.userId) = {}
              /\ \E id \in DOMAIN ls.docs : ls.docs[id].userId = ls'.last.userId)
                => (/\ ls'.last.outcome = "ok"
                    /\ Cardinality(ActiveLifestylesOf(ls'.docs, ls'.last.userId)) = 1)
          /\ (ls'.last.op = "delete" /\ ActiveLifestylesOf(ls.docs, ls'.last.userId) = {})
                => (ls'.last.outcome = "Lifestyle not found" /\ ls'.docs = ls.docs)]_vars

C25_RegenerateReplacesCode ==
    [][/\ (lastOp'.flip # lastOp.flip /\ lastOp'.op = "regenerateQrCode") =>
            IF lastOp'.id \in PassIds
            THEN /\ lastOp'.error = ""
                 /\ \A p \in PassIds : passes'[lastOp'.id].accessCode # passes[p].accessCode
                 /\ passes'[lastOp'.id].expiresAt = now + HEALTH_PASS_EXPIRY_HOURS
            ELSE /\ lastOp'.error = "Health pass not found"
                 /\ passes' = passes
                 /\ codesIssued' = codesIssued
       /\ \A r \in Requests :
            /\ (/\ reqs[r].pc = "idle"
                /\ reqs'[r].pc # "idle"
                /\ reqs'[r].code \in 1..codesIssued
                /\ \A p \in PassIds : passes[p].accessCode # reqs'[r].code)
                  => (/\ reqs'[r].pc = "done"
                      /\ reqs'[r].response = errorHandler(NotFoundError("Health pass not found")))
            /\ (/\ reqs[r].pc # "done"
                /\ reqs'[r].pc = "done"
                /\ reqs'[r].healthPass # NoHealthPass
                /\ reqs'[r].checkedAt <= reqs'[r].healthPass.expiresAt)
                  => reqs'[r].response.success]_vars

\* After a regeneration, a lookup by the previous code was answered not found
\* while a request with the new code was served the preview.
C25_Witness ==
    /\ lastOp.op = "regenerateQrCode"
    /\ lastOp.error = ""
    /\ \E r, q \in Requests :
          /\ reqs[r].pc = "done"
          /\ reqs[r].code \in 1..codesIssued
          /\ reqs[r].code # passes[lastOp.id].accessCode
          /\ reqs[r].response.error = "Health pass not found"
          /\ reqs[q].pc = "done"
          /\ reqs[q].code = passes[lastOp.id].accessCode
          /\ reqs[q].response.success

\* C26: once two toggleItem requests that enable two different items of the
\* same category of the same pass have both completed, both item IDs are in
\* that category's specific-ID list.
C26_NeitherToggleLost ==
    \A r, q \in Requests :
        (/\ r # q
         /\ tg[r].pc = "written"
         /\ tg[q].pc = "written"
         /\ tg[r].id = tg[q].id
         /\ tg[r].itemType = tg[q].itemType
         /\ tg[r].isEnabled
         /\ tg[q].isEnabled
         /\ tg[r].itemId # tg[q].itemId)
        => /\ Includes(passes[tg[r].id].dataToggles.specific[tg[r].itemType], tg[r].itemId)
           /\ Includes(passes[tg[r].id].dataToggles.specific[tg[r].itemType], tg[q].itemId)

\* C27: of two create requests of the same user for the same allergen (or the
\* same medication name and dosage) that run concurrently at most one
\* succeeds, and at most one active record with that key exists afterwards.
C27_ConcurrentCreatesKeepKeyUnique ==
    /\ \A r, q \in Requests :
           (/\ r # q
            /\ cr[r].pc = "done"
            /\ cr[q].pc = "done"
            /\ cr[r].kind = cr[q].kind
            /\ cr[r].userId = cr[q].userId
            /\ SameKey(cr[r].key, cr[q].key))
           => ~(cr[r].outcome = "created" /\ cr[q].outcome = "created")
    /\ \A i, j \in DOMAIN rs.docs :
           (/\ i # j
            /\ rs.docs[i].kind = rs.docs[j].kind
            /\ rs.docs[i].userId = rs.docs[j].userId
            /\ rs.docs[i].isActive
            /\ rs.docs[j].isActive
            /\ rs.docs[i].key \in PlainKeys(rs.docs[i].kind))
           => ~SameKey(rs.docs[i].key, rs.docs[j].key)


\* ------------------------------------------------------------------------
\* C28: a by-ID request on a health pass or a health record sent by a user
\* who does not own it changes no stored state and returns none of the
\* resource's data.
\* ------------------------------------------------------------------------
C28_ByIdOnlyByOwner ==
    (ctl.caller # "" /\ ctl.owner # "" /\ ctl.caller # ctl.owner) =>
        (~ctl.changed /\ ~ctl.data)


\* ------------------------------------------------------------------------
\* C29: the profile summary returned by a preview was generated only from
\* items visible in that same preview: once an item has been toggled off or
\* soft-deleted, no later preview returns a summary generated from it.
\* ------------------------------------------------------------------------
C29_SummaryOnlyFromVisibleItems ==
    \A r \in Requests :
        (Previewed(r) /\ reqs[r].variant = "filtered") =>
            \A c \in Categories :
                Range(reqs[r].response.aiProfileSummary[c].items)
                    \subseteq Range(reqs[r].response.items[c])

====
